---- MODULE Spec2Model ----
(***************************************************************************)
(* A model of dkregistry's image renderer (src/src/render.rs): unpack and  *)
(* unpack_with_options apply an ordered list of gzip-compressed tar layers *)
(* to a target directory and resolve whiteout markers after each layer.    *)
(*                                                                         *)
(* The filesystem is a function from absolute paths to nodes.  A path is a *)
(* sequence of components and a component is a sequence of characters, so  *)
(* that starts_with(".wh.") and trim_start_matches(".wh.") are computed on *)
(* the characters as the code computes them.                               *)
(*                                                                         *)
(* Library calls are modelled by what they do on a Unix host:              *)
(*   tar::Archive::unpack    skips entries holding a ".." component,       *)
(*                           creates missing parents, replaces a regular   *)
(*                           file by a regular file, fails when a file     *)
(*                           meets a directory;                            *)
(*   std::fs::remove_dir_all fails with NotFound on a missing path and     *)
(*                           with NotADirectory on a regular file (it      *)
(*                           opens the root path as a directory), and      *)
(*                           removes a directory with all it holds.        *)
(* Archive entries are regular files and directories; links and devices    *)
(* are outside the model.                                                  *)
(***************************************************************************)
EXTENDS Integers, Sequences, FiniteSets, TLC

\* Bounds of the model: layers per call, archive items over all layers of a call.
MaxLayers == 2
MaxEntries == 3
\* The same for the calls that are made twice or against several targets.
FewLayers == 2
FewEntries == 2

(***************************************************************************)
(* Names and paths                                                         *)
(***************************************************************************)
WhPrefix == <<".", "w", "h", ".">>
OpqName == <<".", "w", "h", ".", ".", "w", "h", ".", ".", "o", "p", "q">>
CurDir == <<".">>
ParentDir == <<".", ".">>
EmptyName == <<>>

Foo == <<"f", "o", "o">>
Bar == <<"b", "a", "r">>
WhBar == WhPrefix \o Bar
WhWhBar == WhPrefix \o WhBar
Tgt == <<"t">>
Out == <<"o">>
WhOut == WhPrefix \o Out
Kept == <<"k">>
Reg == <<"r">>
Missing == <<"m">>

\* str::starts_with
StartsWith(s, p) == Len(s) >= Len(p) /\ SubSeq(s, 1, Len(p)) = p

\* str::trim_start_matches: every repetition of the prefix is removed.
RECURSIVE TrimStartMatches(_, _)
TrimStartMatches(s, p) ==
    IF p # <<>> /\ StartsWith(s, p)
    THEN TrimStartMatches(SubSeq(s, Len(p) + 1, Len(s)), p)
    ELSE s

IsPrefix(p, q) == Len(p) <= Len(q) /\ SubSeq(q, 1, Len(p)) = p

\* Path::parent of a relative path of components: None for the empty path.
PathParent(path) ==
    IF path = <<>> THEN <<"none">> ELSE <<"some", SubSeq(path, 1, Len(path) - 1)>>

\* Path::file_name: None for the empty path and for a path ending in "..".
PathFileName(path) ==
    IF path = <<>> \/ path[Len(path)] = ParentDir
    THEN <<"none">>
    ELSE <<"some", path[Len(path)]>>

(***************************************************************************)
(* The filesystem                                                          *)
(***************************************************************************)
DirNode == [kind |-> "dir", data |-> "", mode |-> "0755", xattrs |-> "none"]
FileNode(data, mode, xattrs) ==
    [kind |-> "file", data |-> data, mode |-> mode, xattrs |-> xattrs]

Exists(f, p) == p \in DOMAIN f
IsDir(f, p) == p \in DOMAIN f /\ f[p].kind = "dir"
IsFile(f, p) == p \in DOMAIN f /\ f[p].kind = "file"

\* The kernel's path walk from the root over components that may hold "." and
\* "..": every component before the last must be an existing directory.  The
\* result names the path of the last component, which may not exist.
RECURSIVE Walk(_, _, _)
Walk(f, cur, comps) ==
    IF comps = <<>> THEN [err |-> "none", path |-> cur]
    ELSE IF ~Exists(f, cur) THEN [err |-> "NotFound", path |-> cur]
    ELSE IF ~IsDir(f, cur) THEN [err |-> "NotADirectory", path |-> cur]
    ELSE LET c == Head(comps)
             next == IF c = CurDir \/ c = EmptyName THEN cur
                     ELSE IF c = ParentDir
                          THEN (IF cur = <<>> THEN cur ELSE SubSeq(cur, 1, Len(cur) - 1))
                          ELSE Append(cur, c)
         IN Walk(f, next, Tail(comps))

Without(f, gone) == [q \in (DOMAIN f) \ gone |-> f[q]]

\* std::fs::remove_dir_all on the path made of the components comps: lstat of
\* the path, then the path is opened as a directory, emptied and removed.  A
\* path whose last component is "." or "..", or the root, is emptied and the
\* final rmdir fails.
RemoveDirAll(f, comps) ==
    LET w == Walk(f, <<>>, comps)
        last == comps[Len(comps)]
        below == {q \in DOMAIN f : IsPrefix(w.path, q) /\ q # w.path}
    IN IF w.err # "none" THEN [fs |-> f, err |-> w.err, touched |-> {}]
       ELSE IF ~Exists(f, w.path) THEN [fs |-> f, err |-> "NotFound", touched |-> {}]
       ELSE IF IsFile(f, w.path) THEN [fs |-> f, err |-> "NotADirectory", touched |-> {}]
       ELSE IF w.path = <<>> \/ last = CurDir \/ last = ParentDir
            THEN [fs |-> Without(f, below), err |-> "InvalidInput", touched |-> below]
            ELSE [fs |-> Without(f, below \cup {w.path}), err |-> "none",
                  touched |-> below \cup {w.path}]

(***************************************************************************)
(* Archive entries and options                                             *)
(***************************************************************************)
Entry(path, kind, data, mode, xattrs) ==
    [path |-> path, kind |-> kind, data |-> data, mode |-> mode, xattrs |-> xattrs]
\* A place where the compressed stream is damaged: reading it fails there.
Corrupt == Entry(<<>>, "corrupt", "", "", "")

\* tar's mode handling without preserve_permissions: mode & 0o777.
MaskMode(m) == IF m = "4755" THEN "0755" ELSE m

AppliedMode(e, opts) == IF opts.preserve_permissions THEN e.mode ELSE MaskMode(e.mode)
\* As AppliedXattrs, but the switch is not read.
AppliedXattrs_Always(e, opts) == e.xattrs
AppliedXattrs(e, opts) == IF opts.unpack_xattrs THEN e.xattrs ELSE "none"

\* As TarUnpackEntry, but a regular file that is already there is kept.
TarUnpackEntry_KeepExisting(f, tgt, e, opts) ==
    LET dst == tgt \o e.path
        ancestors == {SubSeq(dst, 1, n) : n \in Len(tgt)..(Len(dst) - 1)}
        newDirs == {a \in ancestors : ~Exists(f, a)}
        withDirs == [q \in (DOMAIN f) \cup newDirs |->
                        IF q \in DOMAIN f THEN f[q] ELSE DirNode]
        node == IF e.kind = "dir"
                THEN [DirNode EXCEPT !.mode = AppliedMode(e, opts)]
                ELSE FileNode(e.data, AppliedMode(e, opts), AppliedXattrs(e, opts))
    IN IF e.path = <<>> \/ \E i \in 1..Len(e.path) : e.path[i] = ParentDir
       THEN [fs |-> f, err |-> "none", touched |-> {}]
       ELSE IF \E a \in ancestors : IsFile(f, a)
            THEN [fs |-> f, err |-> "NotADirectory", touched |-> {}]
       ELSE IF Exists(f, dst) /\ f[dst].kind # e.kind
            THEN [fs |-> withDirs, err |-> "AlreadyExists", touched |-> newDirs]
       ELSE IF IsFile(f, dst)
            THEN [fs |-> f, err |-> "none", touched |-> {}]
       ELSE [fs |-> [q \in (DOMAIN withDirs) \cup {dst} |->
                        IF q = dst THEN node ELSE withDirs[q]],
             err |-> "none", touched |-> newDirs \cup {dst}]

\* tar::Archive::unpack for one entry, under the destination tgt.
TarUnpackEntry(f, tgt, e, opts) ==
    LET dst == tgt \o e.path
        ancestors == {SubSeq(dst, 1, n) : n \in Len(tgt)..(Len(dst) - 1)}
        newDirs == {a \in ancestors : ~Exists(f, a)}
        withDirs == [q \in (DOMAIN f) \cup newDirs |->
                        IF q \in DOMAIN f THEN f[q] ELSE DirNode]
        node == IF e.kind = "dir"
                THEN [DirNode EXCEPT !.mode = AppliedMode(e, opts)]
                ELSE FileNode(e.data, AppliedMode(e, opts), AppliedXattrs(e, opts))
    IN IF e.path = <<>> \/ \E i \in 1..Len(e.path) : e.path[i] = ParentDir
       THEN [fs |-> f, err |-> "none", touched |-> {}]
       ELSE IF \E a \in ancestors : IsFile(f, a)
            THEN [fs |-> f, err |-> "NotADirectory", touched |-> {}]
       ELSE IF Exists(f, dst) /\ f[dst].kind # e.kind
            THEN [fs |-> withDirs, err |-> "AlreadyExists", touched |-> newDirs]
       ELSE [fs |-> [q \in (DOMAIN withDirs) \cup {dst} |->
                        IF q = dst THEN node ELSE withDirs[q]],
             err |-> "none", touched |-> newDirs \cup {dst}]

\* "./" + parent, with parent = path.parent().unwrap_or("/").
RelParent(path) ==
    LET parent == PathParent(path)
    IN <<CurDir>> \o (IF parent[1] = "none" THEN <<>> ELSE parent[2])

\* The name the resolver removes for a marker's file name.
RealName(wh_name) == TrimStartMatches(wh_name, WhPrefix)

\* As IsWhiteout, without the test for the opaque marker.
IsWhiteout_OpaqueToo(wh_name) == StartsWith(wh_name, WhPrefix)
\* Whether the resolver deletes for this file name.
IsWhiteout(wh_name) == wh_name # OpqName /\ StartsWith(wh_name, WhPrefix)

AbsRealPath(tgt, path) ==
    tgt \o RelParent(path) \o <<RealName(PathFileName(path)[2])>>
AbsWhPath(tgt, path) ==
    tgt \o RelParent(path) \o <<PathFileName(path)[2]>>

\* As CleanWhiteout, but a removal of a missing path counts as done.
CleanWhiteout_IgnoreNotFound(f, tgt, e) ==
    LET fname == PathFileName(e.path)
        quiet(r) == IF r.err = "NotFound" THEN [r EXCEPT !.err = "none"] ELSE r
    IN IF fname[1] = "none" \/ ~IsWhiteout(fname[2])
       THEN [fs |-> f, err |-> "none", touched |-> {}]
       ELSE LET r1 == quiet(RemoveDirAll(f, AbsRealPath(tgt, e.path)))
                r2 == quiet(RemoveDirAll(r1.fs, AbsWhPath(tgt, e.path)))
            IN IF r1.err # "none" THEN r1
               ELSE [fs |-> r2.fs, err |-> r2.err,
                     touched |-> r1.touched \cup r2.touched]

\* As CleanWhiteout, but the marker itself is left where the extraction put it.
CleanWhiteout_KeepPlaceholder(f, tgt, e) ==
    LET fname == PathFileName(e.path)
    IN IF fname[1] = "none" \/ ~IsWhiteout(fname[2])
       THEN [fs |-> f, err |-> "none", touched |-> {}]
       ELSE RemoveDirAll(f, AbsRealPath(tgt, e.path))

\* The body of the whiteout loop for one entry: both removals, the second only
\* when the first succeeded.
CleanWhiteout(f, tgt, e) ==
    LET fname == PathFileName(e.path)
    IN IF fname[1] = "none" \/ ~IsWhiteout(fname[2])
       THEN [fs |-> f, err |-> "none", touched |-> {}]
       ELSE LET r1 == RemoveDirAll(f, AbsRealPath(tgt, e.path))
                r2 == RemoveDirAll(r1.fs, AbsWhPath(tgt, e.path))
            IN IF r1.err # "none" THEN r1
               ELSE [fs |-> r2.fs, err |-> r2.err,
                     touched |-> r1.touched \cup r2.touched]

(***************************************************************************)
(* Inputs                                                                  *)
(***************************************************************************)
RECURSIVE SeqsOfLen(_, _)
SeqsOfLen(U, n) ==
    IF n = 0 THEN {<<>>}
    ELSE {Append(s, u) : s \in SeqsOfLen(U, n - 1), u \in U}

\* The sequences of exactly k layers over the items U holding at most n items.
RECURSIVE LayerSeqsOf(_, _, _)
LayerSeqsOf(U, k, n) ==
    IF k = 0 THEN {<<>>}
    ELSE UNION {{<<l>> \o rest : l \in SeqsOfLen(U, m), rest \in LayerSeqsOf(U, k - 1, n - m)}
                : m \in 0..n}

LayerSeqs(U, maxLayers, maxEntries) ==
    UNION {LayerSeqsOf(U, k, maxEntries) : k \in 0..maxLayers}

\* Targets: a path and whether it is written as an absolute path.  Relative
\* paths are resolved against the working directory, the root.
Target(abs, path) == [abs |-> abs, path |-> path]
GoodTarget == Target(TRUE, <<Tgt>>)
RelativeTarget == Target(FALSE, <<Tgt>>)
MissingTarget == Target(TRUE, <<Missing>>)
FileTarget == Target(TRUE, <<Reg>>)

\* The host before a call: the empty target directory /t, a regular file /r,
\* a directory /o holding a file, and in the host "wh" a directory /.wh.o.
InitFs(e) ==
    LET base == (<<>> :> DirNode) @@ (<<Tgt>> :> DirNode)
                @@ (<<Reg>> :> FileNode("r", "0644", "none"))
                @@ (<<Out>> :> DirNode)
                @@ (<<Out, Kept>> :> FileNode("k", "0644", "none"))
    IN IF e = "wh" THEN base @@ (<<WhOut>> :> DirNode) ELSE base

\* A call: the entry point and, for unpack_with_options, the builder calls the
\* caller makes on UnpackOptions::new().
Setter(name, val) == [set |-> name, val |-> val]
CallUnpack == [api |-> "unpack", plan |-> <<>>]
CallWith(plan) == [api |-> "unpack_with_options", plan |-> plan]
Setters == {Setter(n, v) : n \in {"preserve_permissions", "unpack_xattrs"}, v \in BOOLEAN}

\* As BuilderCalls, but unpack sets preserve_permissions only.
BuilderCalls_PermissionsOnly(c) ==
    IF c.api = "unpack"
    THEN <<Setter("preserve_permissions", TRUE)>>
    ELSE c.plan

\* The builder calls of a call: those of unpack are the code's.
BuilderCalls(c) ==
    IF c.api = "unpack"
    THEN <<Setter("preserve_permissions", TRUE), Setter("unpack_xattrs", TRUE)>>
    ELSE c.plan

(***************************************************************************)
(* State                                                                   *)
(***************************************************************************)
VARIABLES
    layers,     \* the layers of the call, each a sequence of archive items
    target,     \* target_dir
    env,        \* which host the call started in
    calls,      \* the calls the caller makes, one after the other
    mode,       \* how the caller prepares a second call: "fresh" or "reset"
    fs,         \* the filesystem
    run,        \* index of the call in progress
    pc,         \* position in the call
    builder,    \* the builder calls still to make
    options,    \* the UnpackOptions value
    li,         \* index of the layer in progress
    ei,         \* index of the archive item in progress
    result,     \* the value returned
    log,        \* the steps performed on the filesystem, in order
    first       \* the outcome of the first call, once a second has started

vars == <<layers, target, env, calls, mode, fs, run, pc, builder, options, li, ei,
          result, log, first>>
inputs == <<layers, target, env, calls, mode>>

NoResult == [kind |-> "none", path |-> <<>>, io |-> "none"]
OkResult == [kind |-> "Ok", path |-> <<>>, io |-> "none"]
WrongTargetPath(t) == [kind |-> "WrongTargetPath", path |-> t, io |-> "none"]
IoError(k) == [kind |-> "Io", path |-> <<>>, io |-> k]

NoOptions == [preserve_permissions |-> FALSE, unpack_xattrs |-> FALSE]

\* What lies under the target, by relative path.
Tree(f, t) ==
    [r \in {SubSeq(q, Len(t.path) + 1, Len(q)) :
                q \in {q \in DOMAIN f : IsPrefix(t.path, q) /\ q # t.path}}
        |-> f[t.path \o r]]

Setup(ls, t, e, cs, m) ==
    /\ layers = ls
    /\ target = t
    /\ env = e
    /\ calls = cs
    /\ mode = m
    /\ fs = InitFs(e)
    /\ run = 1
    /\ pc = "new"
    /\ builder = BuilderCalls(cs[1])
    /\ options = NoOptions
    /\ li = 0
    /\ ei = 0
    /\ result = NoResult
    /\ log = <<>>
    /\ first = [result |-> NoResult, tree |-> <<>>, log |-> <<>>]

Event(op, r) == [op |-> op, layer |-> li, item |-> ei, touched |-> r.touched]
Item == layers[li][ei]

(***************************************************************************)
(* Operations                                                              *)
(***************************************************************************)
\* UnpackOptions::new
OptionsNew ==
    /\ pc = "new"
    /\ options' = NoOptions
    /\ pc' = "build"
    /\ UNCHANGED <<inputs, fs, run, builder, li, ei, result, log, first>>

\* UnpackOptions::preserve_permissions
PreservePermissions ==
    /\ pc = "build"
    /\ builder # <<>>
    /\ Head(builder).set = "preserve_permissions"
    /\ options' = [options EXCEPT !.preserve_permissions = Head(builder).val]
    /\ builder' = Tail(builder)
    /\ UNCHANGED <<inputs, fs, run, pc, li, ei, result, log, first>>

\* UnpackOptions::unpack_xattrs
UnpackXattrs ==
    /\ pc = "build"
    /\ builder # <<>>
    /\ Head(builder).set = "unpack_xattrs"
    /\ options' = [options EXCEPT !.unpack_xattrs = Head(builder).val]
    /\ builder' = Tail(builder)
    /\ UNCHANGED <<inputs, fs, run, pc, li, ei, result, log, first>>

\* As TargetValid, without the is_absolute test.
TargetValid_SkipAbsolute(f, t) == Exists(f, t.path) /\ IsDir(f, t.path)
TargetValid(f, t) == t.abs /\ Exists(f, t.path) /\ IsDir(f, t.path)

Return(r) ==
    /\ result' = r
    /\ pc' = "done"

\* _unpack's entry: the check of target_dir.
CheckTarget ==
    /\ pc = "build"
    /\ builder = <<>>
    /\ IF ~TargetValid(fs, target)
       THEN Return(WrongTargetPath(target)) /\ UNCHANGED li
       ELSE pc' = "open" /\ li' = 1 /\ UNCHANGED result
    /\ UNCHANGED <<inputs, fs, run, builder, options, ei, log, first>>

\* The head of the loop over the layers: the gzip decoder reads the header.
OpenLayer ==
    /\ pc = "open"
    /\ li <= Len(layers)
    /\ IF layers[li] # <<>> /\ layers[li][1] = Corrupt
       THEN Return(IoError("InvalidData")) /\ UNCHANGED ei
       ELSE pc' = "extract" /\ ei' = 1 /\ UNCHANGED result
    /\ UNCHANGED <<inputs, fs, run, builder, options, li, log, first>>

\* archive.unpack(target_dir), one archive item at a time.
Extract ==
    /\ pc = "extract"
    /\ ei <= Len(layers[li])
    /\ IF Item = Corrupt
       THEN Return(IoError("InvalidData")) /\ UNCHANGED <<fs, ei, log>>
       ELSE LET r == TarUnpackEntry(fs, target.path, Item, options)
            IN /\ fs' = r.fs
               /\ log' = Append(log, Event("extract", r))
               /\ IF r.err # "none"
                  THEN Return(IoError(r.err)) /\ UNCHANGED ei
                  ELSE ei' = ei + 1 /\ UNCHANGED <<pc, result>>
    /\ UNCHANGED <<inputs, run, builder, options, li, first>>

\* As Reopen, but every layer is extracted before the first whiteout pass.
Reopen_ExtractAllFirst ==
    /\ pc = "extract"
    /\ ei > Len(layers[li])
    /\ IF li < Len(layers)
       THEN li' = li + 1 /\ pc' = "open" /\ UNCHANGED ei
       ELSE li' = 1 /\ pc' = "resolve" /\ ei' = 1
    /\ UNCHANGED <<inputs, fs, run, builder, options, result, log, first>>

\* The layer is decompressed again for the whiteout pass.
Reopen ==
    /\ pc = "extract"
    /\ ei > Len(layers[li])
    /\ pc' = "resolve"
    /\ ei' = 1
    /\ UNCHANGED <<inputs, fs, run, builder, options, li, result, log, first>>

\* As Resolve, but the results of the removals are dropped.
Resolve_IgnoreErrors ==
    /\ pc = "resolve"
    /\ ei <= Len(layers[li])
    /\ IF Item = Corrupt
       THEN Return(IoError("InvalidData")) /\ UNCHANGED <<fs, ei, log>>
       ELSE LET r == CleanWhiteout(fs, target.path, Item)
            IN /\ fs' = r.fs
               /\ log' = Append(log, Event("resolve", r))
               /\ ei' = ei + 1
               /\ UNCHANGED <<pc, result>>
    /\ UNCHANGED <<inputs, run, builder, options, li, first>>

\* The whiteout loop, one archive entry at a time.
Resolve ==
    /\ pc = "resolve"
    /\ ei <= Len(layers[li])
    /\ IF Item = Corrupt
       THEN Return(IoError("InvalidData")) /\ UNCHANGED <<fs, ei, log>>
       ELSE LET r == CleanWhiteout(fs, target.path, Item)
            IN /\ fs' = r.fs
               /\ log' = Append(log, Event("resolve", r))
               /\ IF r.err # "none"
                  THEN Return(IoError(r.err)) /\ UNCHANGED ei
                  ELSE ei' = ei + 1 /\ UNCHANGED <<pc, result>>
    /\ UNCHANGED <<inputs, run, builder, options, li, first>>

\* The end of the loop body: on to the next layer.
NextLayer ==
    /\ pc = "resolve"
    /\ ei > Len(layers[li])
    /\ li' = li + 1
    /\ pc' = "open"
    /\ UNCHANGED <<inputs, fs, run, builder, options, ei, result, log, first>>

\* Every layer is done.
ReturnOk ==
    /\ pc = "open"
    /\ li > Len(layers)
    /\ Return(OkResult)
    /\ UNCHANGED <<inputs, fs, run, builder, options, li, ei, log, first>>

\* The caller empties the target directory, or makes it anew.
FreshTarget(f, t) ==
    LET kept == Without(f, {q \in DOMAIN f : IsPrefix(t.path, q)})
    IN kept @@ (t.path :> DirNode)

\* The caller calls again, with the same layers and target: against a freshly
\* prepared empty target on the same host ("fresh"), or on a host put back to
\* what it was before the first call ("reset").
Rerun ==
    /\ pc = "done"
    /\ run < Len(calls)
    /\ first' = [result |-> result, tree |-> Tree(fs, target), log |-> log]
    /\ fs' = IF mode = "reset" THEN InitFs(env) ELSE FreshTarget(fs, target)
    /\ run' = run + 1
    /\ pc' = "new"
    /\ builder' = BuilderCalls(calls[run + 1])
    /\ li' = 0
    /\ ei' = 0
    /\ result' = NoResult
    /\ log' = <<>>
    /\ UNCHANGED <<inputs, options>>

\* As NextCall, but the whiteout pass of every layer is put off until all
\* layers are extracted.
NextCall_DeferredWhiteouts ==
    \/ OptionsNew
    \/ PreservePermissions
    \/ UnpackXattrs
    \/ CheckTarget
    \/ OpenLayer
    \/ Extract
    \/ /\ pc = "extract"
       /\ ei > Len(layers[li])
       /\ IF li < Len(layers)
          THEN li' = li + 1 /\ pc' = "open" /\ UNCHANGED ei
          ELSE li' = 1 /\ pc' = "resolve" /\ ei' = 1
       /\ UNCHANGED <<inputs, fs, run, builder, options, result, log, first>>
    \/ Resolve
    \/ /\ pc = "resolve"
       /\ ei > Len(layers[li])
       /\ li' = li + 1
       /\ IF li < Len(layers)
          THEN pc' = "resolve" /\ ei' = 1
          ELSE pc' = "open" /\ UNCHANGED ei
       /\ UNCHANGED <<inputs, fs, run, builder, options, result, log, first>>
    \/ ReturnOk

NextCall ==
    \/ OptionsNew
    \/ PreservePermissions
    \/ UnpackXattrs
    \/ CheckTarget
    \/ OpenLayer
    \/ Extract
    \/ Reopen
    \/ Resolve
    \/ NextLayer
    \/ ReturnOk

Next == NextCall \/ Rerun

(***************************************************************************)
(* Specifications                                                          *)
(***************************************************************************)
\* Whiteouts and overwrites below foo/, with a damaged stream among the items.
CoreItems ==
    { Entry(<<Foo, Bar>>, "file", "base", "0644", "none"),
      Entry(<<Foo, Bar>>, "file", "override", "0644", "none"),
      Entry(<<Foo, Bar>>, "dir", "", "0755", "none"),
      Entry(<<Foo, WhBar>>, "file", "", "0644", "none"),
      Entry(<<Foo, WhBar>>, "dir", "", "0755", "none"),
      Corrupt }

Init ==
    \E ls \in LayerSeqs(CoreItems, MaxLayers, MaxEntries) : Setup(ls, GoodTarget, "plain", <<CallUnpack>>, "reset")

Spec == Init /\ [][NextCall]_vars

\* Every kind of target, both entry points.
TargetItems == {Entry(<<Foo, Bar>>, "file", "base", "0644", "none"), Corrupt}
Targets == {GoodTarget, RelativeTarget, MissingTarget, FileTarget}
TargetCalls == {CallUnpack, CallWith(<<>>)} \cup {CallWith(<<x>>) : x \in Setters}

InitTarget ==
    \E ls \in LayerSeqs(TargetItems, FewLayers, FewEntries), t \in Targets, c \in TargetCalls :
        Setup(ls, t, "plain", <<c>>, "reset")

SpecTarget == InitTarget /\ [][NextCall]_vars

\* unpack, then unpack_with_options with the options the caller built, on a
\* host put back to what it was: entries with special mode bits and extended
\* attributes, and a whiteout that succeeds.
OptionItems ==
    { Entry(<<Foo>>, "file", "base", "4755", "user.x"),
      Entry(<<Bar>>, "dir", "", "4755", "none"),
      Entry(<<WhBar>>, "dir", "", "0755", "none") }
\* Each switch set at most once, in either order.
OptionPlans ==
    {<<>>} \cup {<<x>> : x \in Setters}
           \cup {p \in {<<x, y>> : x \in Setters, y \in Setters} : p[1].set # p[2].set}

InitOptions ==
    \E ls \in LayerSeqs(OptionItems, FewLayers, FewEntries), plan \in OptionPlans :
        Setup(ls, GoodTarget, "plain", <<CallUnpack, CallWith(plan)>>, "reset")

SpecOptions == InitOptions /\ [][Next]_vars

\* unpack made twice, the second time against a freshly prepared empty target
\* on the same host; a marker whose parent is "..".
EscapeItems ==
    { Entry(<<ParentDir, WhOut>>, "file", "", "0644", "none"),
      Entry(<<Foo, Bar>>, "file", "base", "0644", "none"),
      Corrupt }

InitEscape ==
    \E ls \in LayerSeqs(EscapeItems, FewLayers, FewEntries), e \in {"plain", "wh"} :
        Setup(ls, GoodTarget, e, <<CallUnpack, CallUnpack>>, "fresh")

SpecEscape == InitEscape /\ [][Next]_vars

\* File names that begin with the marker prefix: the plain marker, a repeated
\* prefix, the bare prefix, the opaque marker, and an entry below a directory
\* that no entry of its own describes.
NameItems ==
    { Entry(<<Foo, Bar>>, "dir", "", "0755", "none"),
      Entry(<<Foo, WhBar>>, "dir", "", "0755", "none"),
      Entry(<<Foo, WhWhBar>>, "dir", "", "0755", "none"),
      Entry(<<Foo, WhPrefix>>, "dir", "", "0755", "none"),
      Entry(<<Foo, OpqName>>, "file", "", "0644", "none"),
      Entry(<<Foo, WhBar, Kept>>, "file", "base", "0644", "none") }

InitNames ==
    \E ls \in LayerSeqs(NameItems, FewLayers, FewEntries) : Setup(ls, GoodTarget, "plain", <<CallUnpack>>, "reset")

SpecNames == InitNames /\ [][NextCall]_vars

(***************************************************************************)
(* Claims                                                                  *)
(***************************************************************************)
Done == pc = "done"
Succeeded == pc = "done" /\ result.kind = "Ok"
ItemsAt == UNION {{<<i, k>> : k \in 1..Len(layers[i])} : i \in 1..Len(layers)}
ItemOf(ik) == layers[ik[1]][ik[2]]
AllItems == {ItemOf(a) : a \in ItemsAt}
IsMarkerName(n) == StartsWith(n, WhPrefix)
IsMarkerItem(e) == e.path # <<>> /\ IsMarkerName(e.path[Len(e.path)])
\* The sibling a marker <p>/.wh.<n> names: <p>/<n>, the file name less its
\* first four characters.
SiblingOf(e) ==
    SubSeq(e.path, 1, Len(e.path) - 1)
        \o <<SubSeq(e.path[Len(e.path)], Len(WhPrefix) + 1, Len(e.path[Len(e.path)]))>>
Abs(rel) == target.path \o rel

\* Layer i contributes a regular file at <p>/<n>, a later layer j holds the
\* marker <p>/.wh.<n>, nothing after j's marker adds <p>/<n> again, and every
\* item of the call is a regular-file entry (nothing else can fail).
WhiteoutOfFileCase(m) ==
    /\ IsMarkerItem(ItemOf(m))
    /\ \A x \in AllItems : x.kind = "file"
    /\ \E a \in ItemsAt : a[1] < m[1] /\ ItemOf(a).path = SiblingOf(ItemOf(m))
    /\ \A a \in ItemsAt : a[1] > m[1] => ItemOf(a).path # SiblingOf(ItemOf(m))

FileItemsFor(p) == {a \in ItemsAt : ItemOf(a).kind = "file" /\ ItemOf(a).path = p}
LastFileItemFor(p) ==
    CHOOSE a \in FileItemsFor(p) :
        \A b \in FileItemsFor(p) : b[1] < a[1] \/ (b[1] = a[1] /\ b[2] <= a[2])

\* C4: without whiteout markers, after a successful call into the empty target
\* a path that is a regular file in several layers holds the content of the
\* highest layer that contains it.
C4_LaterLayerOverwrites ==
    (Succeeded /\ \A x \in AllItems : ~IsMarkerItem(x)) =>
        \A x \in AllItems :
            x.kind = "file" =>
                /\ IsFile(fs, Abs(x.path))
                /\ fs[Abs(x.path)].data = ItemOf(LastFileItemFor(x.path)).data

C4_Witness ==
    /\ Succeeded
    /\ \A x \in AllItems : ~IsMarkerItem(x)
    /\ \E a, b \in ItemsAt :
        /\ a[1] < b[1]
        /\ ItemOf(a).kind = "file" /\ ItemOf(b).kind = "file"
        /\ ItemOf(a).path = ItemOf(b).path
        /\ ItemOf(a).data # ItemOf(b).data
        /\ fs[Abs(ItemOf(b).path)].data = ItemOf(b).data

\* C2: for a target that is not absolute, does not exist or is not a
\* directory, no layer is ever opened and nothing is written or deleted, and
\* the call returns WrongTargetPath carrying the target.
BadTarget ==
    \/ ~target.abs
    \/ target.path \notin DOMAIN InitFs(env)
    \/ InitFs(env)[target.path].kind # "dir"

C2_WrongTargetFailsFirst ==
    BadTarget =>
        /\ fs = InitFs(env)
        /\ log = <<>>
        /\ li = 0
        /\ pc \in {"new", "build", "done"}
        /\ Done => result = WrongTargetPath(target)

C2_Witness ==
    /\ Done
    /\ result = WrongTargetPath(target)
    /\ ~target.abs
    /\ calls[run].api = "unpack_with_options"
    /\ layers # <<>>
    /\ layers[1] # <<>>

\* The step about to be taken fails: the stream is damaged there, the entry
\* cannot be written, or a whiteout removal fails.
StepFails ==
    \/ pc = "open" /\ li <= Len(layers) /\ layers[li] # <<>> /\ layers[li][1] = Corrupt
    \/ /\ pc = "extract"
       /\ ei <= Len(layers[li])
       /\ (Item = Corrupt \/ TarUnpackEntry(fs, target.path, Item, options).err # "none")
    \/ /\ pc = "resolve"
       /\ ei <= Len(layers[li])
       /\ (Item = Corrupt \/ CleanWhiteout(fs, target.path, Item).err # "none")

\* The paths the step just taken wrote or deleted.
StepTouched == IF log' # log THEN log'[Len(log')].touched ELSE {}

\* C6: a failing step ends the call with the I/O error at once; whatever was
\* written or deleted before stays as it is (only the paths of the failing
\* step itself may differ), and after the return nothing is written, deleted
\* or retried.
C6_FirstErrorAborts ==
    [][/\ StepFails =>
            /\ pc' = "done"
            /\ result'.kind = "Io"
            /\ Len(log') <= Len(log) + 1
            /\ SubSeq(log', 1, Len(log)) = log
            /\ \A q \in ((DOMAIN fs) \cup (DOMAIN fs')) \ StepTouched :
                    q \in DOMAIN fs /\ q \in DOMAIN fs' /\ fs'[q] = fs[q]
       /\ (Done /\ run' = run) => UNCHANGED <<fs, log, result, pc, li, ei>>]_vars

C6_Witness ==
    /\ Done
    /\ result.kind = "Io"
    /\ li < Len(layers)
    /\ \E i \in 1..(Len(log) - 1) : \E q \in log[i].touched : Exists(fs, q)

Phase(op) == IF op = "extract" THEN 0 ELSE 1
Precedes(a, b) ==
    \/ a.layer < b.layer
    \/ a.layer = b.layer /\ Phase(a.op) < Phase(b.op)
    \/ a.layer = b.layer /\ a.op = b.op /\ a.item < b.item
Earlier(j, op, l, k) ==
    \E i \in 1..(j - 1) : log[i].op = op /\ log[i].layer = l /\ log[i].item = k

\* C10: the steps occur in the order extract(layer 1), resolve(layer 1),
\* extract(layer 2), resolve(layer 2), ...: a whiteout step of a layer comes
\* after the extraction of every entry of that layer, and an entry of the next
\* layer is written only after the whiteout step of every entry of the layer.
C10_ExtractThenResolvePerLayer ==
    /\ \A i, j \in DOMAIN log : i < j => Precedes(log[i], log[j])
    /\ \A j \in DOMAIN log :
        /\ log[j].op = "resolve" =>
            \A k \in 1..Len(layers[log[j].layer]) : Earlier(j, "extract", log[j].layer, k)
        /\ (log[j].op = "extract" /\ log[j].layer > 1) =>
            \A k \in 1..Len(layers[log[j].layer - 1]) :
                Earlier(j, "resolve", log[j].layer - 1, k)

C10_Witness ==
    /\ Succeeded
    /\ \E i, j \in DOMAIN log :
        /\ i < j
        /\ log[i].op = "resolve" /\ log[i].touched # {}
        /\ log[j].op = "extract" /\ log[j].touched # {}
        /\ log[j].layer = log[i].layer + 1

Under(q) == IsPrefix(target.path, q) /\ q # target.path

\* C5: every path written or deleted lies under target_dir.
C5_NoWriteOutsideTarget ==
    \A i \in DOMAIN log : \A q \in log[i].touched : Under(q)

\* C7: a second run of unpack with the same layers against a freshly prepared
\* empty target ends with the same result and the same tree as the first.
C7_RerunSameOutcome ==
    (run = 2 /\ Done /\ calls[1] = calls[2]) =>
        /\ result = first.result
        /\ Tree(fs, target) = first.tree

BothOn == [preserve_permissions |-> TRUE, unpack_xattrs |-> TRUE]

\* C8: unpack ends as unpack_with_options does with both switches true (same
\* result, same tree); UnpackOptions::new() starts with both switches false
\* and each setter changes its own switch only.
C8_UnpackIsBothOn ==
    /\ []((run = 2 /\ Done /\ calls[1].api = "unpack"
                /\ calls[2].api = "unpack_with_options" /\ options = BothOn) =>
            (result = first.result /\ Tree(fs, target) = first.tree))
    /\ [][/\ pc = "new" => options' = NoOptions
          /\ (pc = "build" /\ builder # <<>> /\ Head(builder).set = "preserve_permissions") =>
                /\ options'.preserve_permissions = Head(builder).val
                /\ options'.unpack_xattrs = options.unpack_xattrs
          /\ (pc = "build" /\ builder # <<>> /\ Head(builder).set = "unpack_xattrs") =>
                /\ options'.unpack_xattrs = Head(builder).val
                /\ options'.preserve_permissions = options.preserve_permissions]_vars

C8_Witness ==
    /\ run = 2
    /\ Succeeded
    /\ calls[1].api = "unpack"
    /\ calls[2] = CallWith(<<Setter("unpack_xattrs", TRUE), Setter("preserve_permissions", TRUE)>>)
    /\ options = BothOn
    /\ \E q \in DOMAIN fs : Under(q) /\ fs[q].xattrs = "user.x" /\ fs[q].mode = "4755"

\* A tree without its metadata: the paths, their kinds and their contents.
Content(tree) == [r \in DOMAIN tree |-> [kind |-> tree[r].kind, data |-> tree[r].data]]
Deletions(l) == SelectSeq(l, LAMBDA ev : ev.op = "resolve")

ItemsFor(p) == {a \in ItemsAt : ItemOf(a).path = p}
LastItemFor(p) ==
    CHOOSE a \in ItemsFor(p) :
        \A b \in ItemsFor(p) : b[1] < a[1] \/ (b[1] = a[1] /\ b[2] <= a[2])
\* Layer m[1] holds the marker <p>/.wh.<n>, the later layer a[1] holds <p>/<n>,
\* and no layer after m[1] holds a marker <p>/.wh.<n>.
ReAddedAfterWhiteout(m, a) ==
    /\ IsMarkerItem(ItemOf(m))
    /\ ItemOf(m).path[Len(ItemOf(m).path)] # OpqName
    /\ a[1] > m[1]
    /\ ItemOf(a).path = SiblingOf(ItemOf(m))
    /\ \A b \in ItemsAt : b[1] > m[1] => ItemOf(b).path # ItemOf(m).path

\* C11: a marker <p>/.wh.<n> of layer N does not reach the layers after it:
\* when a later layer M holds <p>/<n> and no layer after N holds a marker for
\* it, a successful call leaves <p>/<n> present with the kind and content of
\* the last entry for it.
C11_MarkerSparesLaterLayers ==
    Succeeded =>
        \A m, a \in ItemsAt :
            ReAddedAfterWhiteout(m, a) =>
                /\ Exists(fs, Abs(ItemOf(a).path))
                /\ fs[Abs(ItemOf(a).path)].kind = ItemOf(LastItemFor(ItemOf(a).path)).kind
                /\ fs[Abs(ItemOf(a).path)].data = ItemOf(LastItemFor(ItemOf(a).path)).data

\* The marker of layer 1 removed what the layer held, and layer 2 put the
\* path back.
C11_Witness ==
    /\ Succeeded
    /\ \E m, a \in ItemsAt :
        /\ ReAddedAfterWhiteout(m, a)
        /\ \E i \in DOMAIN log :
            /\ log[i].op = "resolve" /\ log[i].layer = m[1] /\ log[i].item = m[2]
            /\ Abs(ItemOf(a).path) \in log[i].touched
        /\ Exists(fs, Abs(ItemOf(a).path))

\* The whiteout step of the log entry ev was made for a marker other than the
\* opaque one.
MarkerStep(ev) ==
    /\ ev.op = "resolve"
    /\ IsMarkerItem(layers[ev.layer][ev.item])
    /\ layers[ev.layer][ev.item].path[Len(layers[ev.layer][ev.item].path)] # OpqName

\* The path a sequence of components names when an empty last component (a
\* trailing separator) is dropped.
Named(path) == SelectSeq(path, LAMBDA c : c # EmptyName)

\* C12: the name a marker shadows is its file name less exactly its first four
\* characters (.wh..wh.x shadows .wh.x): a whiteout step that removes anything
\* removes target_dir/parent/<remainder>.
C12_StripsOnePrefix ==
    \A i \in DOMAIN log :
        (MarkerStep(log[i]) /\ log[i].touched # {}) =>
            Named(Abs(SiblingOf(layers[log[i].layer][log[i].item]))) \in log[i].touched

\* C13: the whiteout step of a marker <p>/.wh.<n> changes nothing but
\* target_dir/<p>/<n> and target_dir/<p>/.wh.<n> with what lies beneath them,
\* whatever the remainder <n>: the parent <p> and every other sibling stay as
\* they are, and a step that goes through leaves the two paths absent.
C13_OnlyTwoPathsRemoved ==
    [][(/\ pc = "resolve"
        /\ ei <= Len(layers[li])
        /\ IsMarkerItem(Item)
        /\ Item.path[Len(Item.path)] # OpqName)
       => /\ \A q \in DOMAIN fs :
                (~IsPrefix(Abs(SiblingOf(Item)), q) /\ ~IsPrefix(Abs(Item.path), q))
                    => (q \in DOMAIN fs' /\ fs'[q] = fs[q])
          /\ pc' = "resolve" =>
                (~Exists(fs', Abs(SiblingOf(Item))) /\ ~Exists(fs', Abs(Item.path)))]_vars

IsOpaqueItem(e) == e.path # <<>> /\ e.path[Len(e.path)] = OpqName

\* C14: the whiteout step of an entry named .wh..wh..opq deletes nothing and
\* does not fail: every path is left as it is, what lower layers put in the
\* parent included, and the marker file the extraction wrote is still there.
C14_OpaqueMarkerIgnored ==
    [][(pc = "resolve" /\ ei <= Len(layers[li]) /\ IsOpaqueItem(Item))
       => /\ fs' = fs
          /\ pc' = "resolve"
          /\ result' = result
          /\ IsFile(fs', Abs(Item.path))]_vars

\* A call that succeeded with an opaque marker above a lower layer's
\* directory: both are in the target.
C14_Witness ==
    /\ Succeeded
    /\ \E o, a \in ItemsAt :
        /\ IsOpaqueItem(ItemOf(o))
        /\ a[1] < o[1]
        /\ ~IsMarkerItem(ItemOf(a))
        /\ SubSeq(ItemOf(a).path, 1, Len(ItemOf(a).path) - 1)
                = SubSeq(ItemOf(o).path, 1, Len(ItemOf(o).path) - 1)
        /\ Exists(fs, Abs(ItemOf(a).path))
        /\ IsFile(fs, Abs(ItemOf(o).path))
        /\ \E i \in DOMAIN log :
            /\ log[i].op = "resolve" /\ log[i].layer = o[1] /\ log[i].item = o[2]
            /\ log[i].touched = {}

\* The processing of layer i has just ended: the loop moved on to the next
\* layer, or the call returned from the layer's whiteout pass.
LayerEnded(i) ==
    \/ pc = "open" /\ li = i + 1
    \/ Done /\ li = i /\ log # <<>> /\ log[Len(log)].op = "resolve"

\* C15: when the extraction of a layer is complete and its whiteout pass has
\* not begun, every entry of the layer exists under target_dir at its relative
\* path, markers included; so a layer that holds both <p>/<n> and <p>/.wh.<n>
\* ends with <p>/<n> absent, whatever the order of the two entries.
C15_LayerExtractedBeforeResolved ==
    /\ (pc = "extract" /\ ei > Len(layers[li])) =>
            \A k \in 1..Len(layers[li]) : Exists(fs, Abs(layers[li][k].path))
    /\ \A m, a \in ItemsAt :
            (/\ m[1] = a[1]
             /\ IsMarkerItem(ItemOf(m))
             /\ ItemOf(m).path[Len(ItemOf(m).path)] # OpqName
             /\ ItemOf(a).path = SiblingOf(ItemOf(m))
             /\ LayerEnded(m[1]))
                => ~Exists(fs, Abs(ItemOf(a).path))

\* A path under target_dir whose file name begins with the marker prefix and
\* is not the opaque marker.
IsPlaceholder(q) == Under(q) /\ IsMarkerName(q[Len(q)]) /\ q[Len(q)] # OpqName
\* No entry lies below a directory whose name begins with the marker prefix
\* (the extraction makes such a directory as a parent, whether or not an entry
\* of its own describes it).
NoEntryBelowMarkerName ==
    \A x \in AllItems :
        \A j \in 1..(Len(x.path) - 1) : ~(IsMarkerName(x.path[j]) /\ x.path[j] # OpqName)

\* C16 as stated: after a successful call into the empty target no path whose
\* file name begins with .wh., other than .wh..wh..opq, remains.
C16_NoPlaceholderRemains ==
    Succeeded => \A q \in DOMAIN fs : ~IsPlaceholder(q)

\* C16, amended: after a successful call into the empty target whose layers
\* hold no entry below a directory named with the marker prefix, no path whose
\* file name begins with .wh., other than .wh..wh..opq, remains.
C16_NoMarkerEntryRemains ==
    (Succeeded /\ NoEntryBelowMarkerName) => \A q \in DOMAIN fs : ~IsPlaceholder(q)

\* A successful call that extracted a marker and removed it again.
C16_Witness ==
    /\ Succeeded
    /\ NoEntryBelowMarkerName
    /\ \E i, j \in DOMAIN log :
        /\ log[i].op = "extract" /\ log[j].op = "resolve"
        /\ \E q \in log[i].touched \cap log[j].touched : IsPlaceholder(q)
    /\ \A q \in DOMAIN fs : ~IsPlaceholder(q)

====
